---- MODULE Spec2Model ----
(***************************************************************************)
(* DefUtilite (src/defutilite.py): pattern search and deletion, folder     *)
(* size, and empty-directory pruning over a directory tree.                 *)
(*                                                                         *)
(* A name is a sequence of character codes, a path is the sequence of the  *)
(* names below the top of the tree (<<>> is the top directory), and the    *)
(* filesystem is a function from the existing paths to their entries.      *)
(***************************************************************************)
EXTENDS Integers, Sequences, FiniteSets, TLC

VARIABLES fs, last

vars == <<fs, last>>

\* ---------------------------------------------------------------- bounds
MaxDepth == 2      \* deepest path that is ever created
MaxEntries == 3    \* entries below the top directory
MaxSize == 2       \* largest file size written
MaxFaults == 1     \* entries that are read-only, locked or unreadable
MaxPaths == 2      \* longest list handed to delete_paths

\* ---------------------------------------------------------------- inputs
\* "a", "a.t"   (46 is '.', 47 is '/', 97 is 'a', 116 is 't')
Names == { <<97>>, <<97, 46, 116>> }

\* "*.t", "a*", "?"   (42 is '*', 63 is '?')
Patterns == { <<42, 46, 116>>, <<97, 42>>, <<63>> }

\* the orders in which the operating system may list one directory
Orders == { o \in [1..Cardinality(Names) -> Names] :
              \A i, j \in DOMAIN o : i # j => o[i] # o[j] }

Modes == {"rw", "ro", "locked"}

\* ------------------------------------------------------------ filesystem
Parent(p) == SubSeq(p, 1, Len(p) - 1)

IsPrefix(d, p) == Len(d) <= Len(p) /\ SubSeq(p, 1, Len(d)) = d

\* the entries strictly below d
Under(f, d) == { p \in DOMAIN f : Len(p) > Len(d) /\ IsPrefix(d, p) }

Children(f, d) == { p \in DOMAIN f : Len(p) = Len(d) + 1 /\ IsPrefix(d, p) }

Remove(f, S) == [p \in DOMAIN f \ S |-> f[p]]

is_dir(f, p) == p \in DOMAIN f /\ f[p].kind = "dir"

NewDir == [kind |-> "dir", size |-> 0, mode |-> "rw", stat |-> TRUE]

NewFile(s) == [kind |-> "file", size |-> s, mode |-> "rw", stat |-> TRUE]

TopOnly == [p \in {<<>>} |-> NewDir]

\* os.chmod(path, stat.S_IWRITE): clears the read-only attribute
chmod(f, p) ==
  IF p \in DOMAIN f /\ f[p].mode = "ro"
  THEN [f EXCEPT ![p].mode = "rw"]
  ELSE f

\* os.unlink(path) of an existing entry
os_unlink(f, p) ==
  IF f[p].mode = "rw"
  THEN [fs |-> Remove(f, {p}), ok |-> TRUE]
  ELSE [fs |-> f, ok |-> FALSE]

\* os.rmdir(path) of an existing directory
os_rmdir(f, p) ==
  IF f[p].mode = "rw" /\ Children(f, p) = {}
  THEN [fs |-> Remove(f, {p}), ok |-> TRUE]
  ELSE [fs |-> f, ok |-> FALSE]

\* os.scandir(d): the entries of d in the order the system lists them
scandir(f, d, ord) ==
  SelectSeq([i \in 1..Len(ord) |-> Append(d, ord[i])],
            LAMBDA p : p \in DOMAIN f)

\* ----------------------------------------------------------------- walk
RECURSIVE walk(_, _, _, _)
RECURSIVE walk_each(_, _, _, _)

\* os.walk(top, topdown): one triple per directory; a directory's triple
\* is built when it is scanned, before (topdown) or after its subtrees
walk(f, top, topdown, ord) ==
  IF ~is_dir(f, top) THEN <<>>
  ELSE LET entries == scandir(f, top, ord)
           dirs == SelectSeq(entries, LAMBDA p : f[p].kind = "dir")
           files == SelectSeq(entries, LAMBDA p : f[p].kind # "dir")
           here == << [current_root |-> top,
                       dirs |-> [i \in 1..Len(dirs) |-> dirs[i][Len(dirs[i])]],
                       files |-> [i \in 1..Len(files) |-> files[i][Len(files[i])]]] >>
           below == walk_each(f, dirs, topdown, ord)
       IN IF topdown THEN here \o below ELSE below \o here

walk_each(f, dirs, topdown, ord) ==
  IF dirs = <<>> THEN <<>>
  ELSE walk(f, Head(dirs), topdown, ord) \o walk_each(f, Tail(dirs), topdown, ord)

\* -------------------------------------------------------------- fnmatch
RECURSIVE fnmatch(_, _)
\* fnmatch.fnmatch(name, pattern) for patterns of literals, '*' and '?'
fnmatch(name, pat) ==
  IF pat = <<>> THEN name = <<>>
  ELSE IF Head(pat) = 42
       THEN fnmatch(name, Tail(pat))
            \/ (name # <<>> /\ fnmatch(Tail(name), pat))
       ELSE /\ name # <<>>
            /\ (Head(pat) = 63 \/ Head(pat) = Head(name))
            /\ fnmatch(Tail(name), Tail(pat))

\* --------------------------------------------------------------- sorted
RECURSIVE StrLt(_, _)
\* str.__lt__: character by character
StrLt(s, t) ==
  IF t = <<>> THEN FALSE
  ELSE IF s = <<>> THEN TRUE
  ELSE IF Head(s) # Head(t) THEN Head(s) < Head(t)
  ELSE StrLt(Tail(s), Tail(t))

RECURSIVE PathLt(_, _)
\* Path.__lt__: the lists of components are compared, name by name
PathLt(p, q) ==
  IF q = <<>> THEN FALSE
  ELSE IF p = <<>> THEN TRUE
  ELSE IF Head(p) # Head(q) THEN StrLt(Head(p), Head(q))
  ELSE PathLt(Tail(p), Tail(q))

RECURSIVE insort(_, _)
insort(s, x) ==
  IF s = <<>> THEN <<x>>
  ELSE IF PathLt(x, Head(s)) THEN <<x>> \o s
  ELSE <<Head(s)>> \o insort(Tail(s), x)

RECURSIVE sorted(_)
sorted(s) ==
  IF s = <<>> THEN <<>>
  ELSE insort(sorted(SubSeq(s, 1, Len(s) - 1)), s[Len(s)])

\* ----------------------------------------------------------- find_paths
RECURSIVE find_loop(_, _, _)
find_loop(triples, pattern, include_dirs) ==
  IF triples = <<>> THEN <<>>
  ELSE LET t == Head(triples)
           d == IF include_dirs
                THEN SelectSeq(t.dirs, LAMBDA n : fnmatch(n, pattern))
                ELSE <<>>
           g == SelectSeq(t.files, LAMBDA n : fnmatch(n, pattern))
       IN [i \in 1..Len(d) |-> Append(t.current_root, d[i])]
          \o [i \in 1..Len(g) |-> Append(t.current_root, g[i])]
          \o find_loop(Tail(triples), pattern, include_dirs)

\* find_paths that matches directories whatever include_dirs says
find_paths_all_dirs(f, root, pattern, include_dirs, ord) ==
  sorted(find_loop(walk(f, root, TRUE, ord), pattern, TRUE))

\* find_paths that returns the matches in walk order
find_paths_unsorted(f, root, pattern, include_dirs, ord) ==
  find_loop(walk(f, root, TRUE, ord), pattern, include_dirs)

find_paths(f, root, pattern, include_dirs, ord) ==
  sorted(find_loop(walk(f, root, TRUE, ord), pattern, include_dirs))

\* --------------------------------------------------------- delete_paths
\* func(path) for the two functions rmtree removes with
call(func, f, path) ==
  IF func = "os.rmdir" THEN os_rmdir(f, path) ELSE os_unlink(f, path)

\* _on_rm_error(func, path, exc_info): lift the read-only flag, call func again
on_rm_error(func, f, path) == call(func, chmod(f, path), path)

\* one removal step of shutil.rmtree(path, onerror=_on_rm_error): a step that
\* fails is handed to the handler, and the handler's own failure ends rmtree
rm_step(func, f, p) ==
  LET r == call(func, f, p)
  IN IF r.ok THEN r ELSE on_rm_error(func, f, p)

RECURSIVE rmtree(_, _, _)
RECURSIVE rmtree_entries(_, _, _)

\* shutil.rmtree(path, onerror=_on_rm_error)
rmtree(f, path, ord) ==
  LET r == rmtree_entries(f, scandir(f, path, ord), ord)
  IN IF ~r.ok THEN r ELSE rm_step("os.rmdir", r.fs, path)

rmtree_entries(f, entries, ord) ==
  IF entries = <<>> THEN [fs |-> f, ok |-> TRUE]
  ELSE LET p == Head(entries)
           r == IF f[p].kind = "dir"
                THEN rmtree(f, p, ord)
                ELSE rm_step("os.unlink", f, p)
       IN IF ~r.ok THEN r ELSE rmtree_entries(r.fs, Tail(entries), ord)

\* Path.unlink that raises on a missing file whatever missing_ok says
unlink_strict(f, p, missing_ok) ==
  IF p \notin DOMAIN f THEN [fs |-> f, ok |-> FALSE] ELSE os_unlink(f, p)

\* Path.unlink(missing_ok)
unlink(f, p, missing_ok) ==
  IF p \notin DOMAIN f THEN [fs |-> f, ok |-> missing_ok] ELSE os_unlink(f, p)

\* the loop body without its dry-run branch
delete_one_live(f, path, dry_run, ord) ==
  IF is_dir(f, path) THEN rmtree(f, path, ord)
  ELSE unlink(f, path, TRUE)

\* the body of the for loop of delete_paths, for one path
delete_one(f, path, dry_run, ord) ==
  IF dry_run THEN [fs |-> f, ok |-> TRUE]
  ELSE IF is_dir(f, path) THEN rmtree(f, path, ord)
  ELSE unlink(f, path, TRUE)

RECURSIVE delete_loop(_, _, _, _)
delete_loop(acc, paths, dry_run, ord) ==
  IF paths = <<>> THEN acc
  ELSE LET r == delete_one(acc.fs, Head(paths), dry_run, ord)
       IN delete_loop([fs |-> r.fs,
                       deleted |-> acc.deleted + (IF r.ok THEN 1 ELSE 0),
                       errors |-> acc.errors + (IF r.ok THEN 0 ELSE 1),
                       log |-> Append(acc.log, [path |-> Head(paths), ok |-> r.ok])],
                      Tail(paths), dry_run, ord)

RECURSIVE delete_loop_abort(_, _, _, _)
delete_loop_abort(acc, paths, dry_run, ord) ==
  IF paths = <<>> THEN acc
  ELSE LET r == delete_one(acc.fs, Head(paths), dry_run, ord)
       IN IF r.ok
          THEN delete_loop_abort([fs |-> r.fs, deleted |-> acc.deleted + 1,
                                  errors |-> acc.errors,
                                  log |-> Append(acc.log, [path |-> Head(paths), ok |-> TRUE])],
                                 Tail(paths), dry_run, ord)
          ELSE [fs |-> r.fs, deleted |-> acc.deleted, errors |-> acc.errors + 1,
                log |-> Append(acc.log, [path |-> Head(paths), ok |-> FALSE])]

\* delete_paths whose first failure ends the batch
delete_paths_abort(f, paths, dry_run, ord) ==
  delete_loop_abort([fs |-> f, deleted |-> 0, errors |-> 0, log |-> <<>>],
                    paths, dry_run, ord)

delete_paths(f, paths, dry_run, ord) ==
  delete_loop([fs |-> f, deleted |-> 0, errors |-> 0, log |-> <<>>],
              paths, dry_run, ord)

\* ------------------------------------------------------- delete_by_name
delete_by_name(f, root, pattern, dry_run, ord) ==
  LET paths == find_paths(f, root, pattern, TRUE, ord)
      r == delete_paths(f, paths, dry_run, ord)
  IN IF paths = <<>>
     THEN [fs |-> f, paths |-> paths, deleted |-> 0, errors |-> 0,
           log |-> <<>>, code |-> 0]
     ELSE [fs |-> r.fs, paths |-> paths, deleted |-> r.deleted,
           errors |-> r.errors, log |-> r.log,
           code |-> IF r.errors = 0 THEN 0 ELSE 1]

\* ------------------------------------------------ calculate_folder_size
RECURSIVE walk_files(_)
\* current_root / file_name for every file of every triple, in walk order
walk_files(triples) ==
  IF triples = <<>> THEN <<>>
  ELSE LET t == Head(triples)
       IN [i \in 1..Len(t.files) |-> Append(t.current_root, t.files[i])]
          \o walk_files(Tail(triples))

RECURSIVE size_loop_break(_, _, _)
\* the summing loop ended by the first file whose metadata cannot be read
size_loop_break(f, file_paths, total) ==
  IF file_paths = <<>> THEN total
  ELSE LET file_path == Head(file_paths)
       IN IF f[file_path].stat
          THEN size_loop_break(f, Tail(file_paths), total + f[file_path].size)
          ELSE total

RECURSIVE size_loop(_, _, _)
size_loop(f, file_paths, total) ==
  IF file_paths = <<>> THEN total
  ELSE LET file_path == Head(file_paths)
       IN size_loop(f, Tail(file_paths),
                    IF f[file_path].stat THEN total + f[file_path].size ELSE total)

calculate_folder_size(f, root, ord) ==
  size_loop(f, walk_files(walk(f, root, TRUE, ord)), 0)

\* ---------------------------------------------------- remove_empty_dirs
RECURSIVE walk_dirs(_)
\* current_root / directory for every directory of every triple, in walk order
walk_dirs(triples) ==
  IF triples = <<>> THEN <<>>
  ELSE LET t == Head(triples)
       IN [i \in 1..Len(t.dirs) |-> Append(t.current_root, t.dirs[i])]
          \o walk_dirs(Tail(triples))

\* the try block without its dry-run branch: the directory is always removed
prune_one_always(acc, target, dry_run) ==
  IF target \notin DOMAIN acc.fs
  THEN [acc EXCEPT !.errors = @ + 1]
  ELSE IF Children(acc.fs, target) # {} THEN acc
  ELSE LET r == os_rmdir(acc.fs, target)
       IN IF r.ok
          THEN [acc EXCEPT !.fs = r.fs, !.removed = @ + 1,
                           !.log = Append(@, target)]
          ELSE [acc EXCEPT !.errors = @ + 1]

\* the try block of remove_empty_dirs, for one target
prune_one(acc, target, dry_run) ==
  IF target \notin DOMAIN acc.fs
  THEN [acc EXCEPT !.errors = @ + 1]
  ELSE IF Children(acc.fs, target) # {} THEN acc
  ELSE IF dry_run
       THEN [acc EXCEPT !.removed = @ + 1, !.log = Append(@, target)]
       ELSE LET r == os_rmdir(acc.fs, target)
            IN IF r.ok
               THEN [acc EXCEPT !.fs = r.fs, !.removed = @ + 1,
                                !.log = Append(@, target)]
               ELSE [acc EXCEPT !.errors = @ + 1]

RECURSIVE prune_loop(_, _, _)
prune_loop(acc, targets, dry_run) ==
  IF targets = <<>> THEN acc
  ELSE prune_loop(prune_one(acc, Head(targets), dry_run), Tail(targets), dry_run)

\* remove_empty_dirs walking top-down: a parent is looked at before its children
remove_empty_dirs_topdown(f, root, dry_run, ord) ==
  prune_loop([fs |-> f, removed |-> 0, errors |-> 0, log |-> <<>>],
             walk_dirs(walk(f, root, TRUE, ord)), dry_run)

\* remove_empty_dirs that takes root itself as its last candidate
remove_empty_dirs_with_root(f, root, dry_run, ord) ==
  prune_loop([fs |-> f, removed |-> 0, errors |-> 0, log |-> <<>>],
             Append(walk_dirs(walk(f, root, FALSE, ord)), root), dry_run)

remove_empty_dirs(f, root, dry_run, ord) ==
  prune_loop([fs |-> f, removed |-> 0, errors |-> 0, log |-> <<>>],
             walk_dirs(walk(f, root, FALSE, ord)), dry_run)

\* ---------------------------------------------------------------- state
\* fs: the directory tree; last: the command of the running invocation, its
\* arguments, the tree it started from and what it returned
NoOp == [op |-> "none", root |-> <<>>, pattern |-> <<>>, include_dirs |-> FALSE,
         dry_run |-> FALSE, paths |-> <<>>, pre |-> TopOnly,
         matches |-> <<>>, log |-> <<>>, deleted |-> 0, removed |-> 0,
         errors |-> 0, total |-> 0, code |-> 0]

Init == fs = TopOnly /\ last = NoOp

Idle == last.op = "none"

Dirs(f) == { d \in DOMAIN f : f[d].kind = "dir" }

Entries(f) == DOMAIN f \ {<<>>}

Faulty(f) == { p \in DOMAIN f : f[p].mode # "rw" \/ ~f[p].stat }

\* the lists of at most MaxPaths existing entries, each entry at most once
PathLists(f) ==
  { l \in UNION { [1..n -> Entries(f)] : n \in 0..MaxPaths } :
      \A i, j \in DOMAIN l : i # j => l[i] # l[j] }

CanCreate(p) ==
  /\ p \notin DOMAIN fs
  /\ Len(p) <= MaxDepth
  /\ is_dir(fs, Parent(p))
  /\ Cardinality(Entries(fs)) < MaxEntries

\* ---------------------------------------------------------- environment
Mkdir ==
  /\ Idle
  /\ \E d \in DOMAIN fs, n \in Names :
       /\ CanCreate(Append(d, n))
       /\ fs' = (Append(d, n) :> NewDir) @@ fs
  /\ UNCHANGED last

WriteText(sizes) ==
  /\ Idle
  /\ \E d \in DOMAIN fs, n \in Names, s \in sizes :
       /\ CanCreate(Append(d, n))
       /\ fs' = (Append(d, n) :> NewFile(s)) @@ fs
  /\ UNCHANGED last

\* an entry becomes read-only ("ro") or impossible to remove ("locked")
SetMode ==
  /\ Idle
  /\ \E p \in Entries(fs), m \in Modes \ {"rw"} :
       /\ fs[p].mode = "rw"
       /\ Cardinality(Faulty(fs) \cup {p}) <= MaxFaults
       /\ fs' = [fs EXCEPT ![p].mode = m]
  /\ UNCHANGED last

\* the metadata of a file becomes unreadable
DenyStat ==
  /\ Idle
  /\ \E p \in Entries(fs) :
       /\ fs[p].kind = "file"
       /\ fs[p].stat
       /\ Cardinality(Faulty(fs) \cup {p}) <= MaxFaults
       /\ fs' = [fs EXCEPT ![p].stat = FALSE]
  /\ UNCHANGED last

\* ------------------------------------------------------------- commands
FindPaths ==
  /\ Idle
  /\ \E root \in Dirs(fs), pattern \in Patterns, include_dirs \in BOOLEAN,
        ord \in Orders :
       last' = [NoOp EXCEPT !.op = "find_paths", !.root = root,
                            !.pattern = pattern, !.include_dirs = include_dirs,
                            !.pre = fs,
                            !.matches = find_paths(fs, root, pattern, include_dirs, ord)]
  /\ UNCHANGED fs

DeletePaths(dry_runs) ==
  /\ Idle
  /\ \E paths \in PathLists(fs), dry_run \in dry_runs, ord \in Orders :
       LET r == delete_paths(fs, paths, dry_run, ord)
       IN /\ fs' = r.fs
          /\ last' = [NoOp EXCEPT !.op = "delete_paths", !.paths = paths,
                                  !.dry_run = dry_run, !.pre = fs,
                                  !.deleted = r.deleted, !.errors = r.errors,
                                  !.log = r.log]

DeleteByName ==
  /\ Idle
  /\ \E root \in Dirs(fs), pattern \in Patterns, dry_run \in BOOLEAN,
        ord \in Orders :
       LET r == delete_by_name(fs, root, pattern, dry_run, ord)
       IN /\ fs' = r.fs
          /\ last' = [NoOp EXCEPT !.op = "delete_by_name", !.root = root,
                                  !.pattern = pattern, !.dry_run = dry_run,
                                  !.pre = fs, !.paths = r.paths,
                                  !.deleted = r.deleted, !.errors = r.errors,
                                  !.log = r.log, !.code = r.code]

CalculateFolderSize ==
  /\ Idle
  /\ \E root \in Dirs(fs), ord \in Orders :
       last' = [NoOp EXCEPT !.op = "calculate_folder_size", !.root = root,
                            !.pre = fs,
                            !.total = calculate_folder_size(fs, root, ord)]
  /\ UNCHANGED fs

RemoveEmptyDirs ==
  /\ Idle
  /\ \E root \in Dirs(fs), dry_run \in BOOLEAN, ord \in Orders :
       LET r == remove_empty_dirs(fs, root, dry_run, ord)
       IN /\ fs' = r.fs
          /\ last' = [NoOp EXCEPT !.op = "remove_empty_dirs", !.root = root,
                                  !.dry_run = dry_run, !.pre = fs,
                                  !.removed = r.removed, !.errors = r.errors,
                                  !.log = r.log]

\* the invocation ends: nothing of it is kept but the tree
Exit ==
  /\ ~Idle
  /\ last' = NoOp
  /\ UNCHANGED fs

Sizes == 1..MaxSize

Next ==
  \/ Mkdir
  \/ WriteText(Sizes)
  \/ SetMode
  \/ DenyStat
  \/ FindPaths
  \/ DeletePaths(BOOLEAN)
  \/ DeleteByName
  \/ CalculateFolderSize
  \/ RemoveEmptyDirs
  \/ Exit

\* every command on every tree
Spec == Init /\ [][Next]_vars

\* One specification per command, over the trees that differ in what the
\* command reads: names and kinds for the search, sizes and unreadable
\* metadata for the size, removal failures for deletion and pruning.
NextFind == Mkdir \/ WriteText({1}) \/ FindPaths \/ Exit

SpecFind == Init /\ [][NextFind]_vars

NextSize == Mkdir \/ WriteText(Sizes) \/ DenyStat \/ CalculateFolderSize \/ Exit

SpecSize == Init /\ [][NextSize]_vars

\* live batches only: a dry run removes nothing and so meets no failure
NextBatch == Mkdir \/ WriteText({1}) \/ SetMode \/ DeletePaths({FALSE}) \/ Exit

SpecBatch == Init /\ [][NextBatch]_vars

NextDelete == Mkdir \/ WriteText({1}) \/ SetMode \/ DeleteByName \/ Exit

SpecDelete == Init /\ [][NextDelete]_vars

NextPrune == Mkdir \/ WriteText({1}) \/ SetMode \/ RemoveEmptyDirs \/ Exit

SpecPrune == Init /\ [][NextPrune]_vars

\* the three commands that take dry_run, on trees where no removal fails
NextDryRun ==
  \/ Mkdir
  \/ WriteText({1})
  \/ DeletePaths(BOOLEAN)
  \/ DeleteByName
  \/ RemoveEmptyDirs
  \/ Exit

SpecDryRun == Init /\ [][NextDryRun]_vars

\* ------------------------------------------------------------ properties
Range(s) == { s[i] : i \in DOMAIN s }

BareName(p) == p[Len(p)]

\* the entries below root whose bare name matches
Matching(f, root, pattern, include_dirs) ==
  { p \in Under(f, root) :
      /\ fnmatch(BareName(p), pattern)
      /\ (f[p].kind = "file" \/ include_dirs) }

RECURSIVE SumSizes(_, _)
SumSizes(f, S) ==
  IF S = {} THEN 0
  ELSE LET p == CHOOSE q \in S : TRUE
       IN f[p].size + SumSizes(f, S \ {p})

\* the directories below root with no file anywhere beneath them
Hollow(f, root) ==
  { d \in Under(f, root) :
      f[d].kind = "dir" /\ \A q \in Under(f, d) : f[q].kind = "dir" }

\* the directories below root with no entry at all
EmptyDirs(f, root) ==
  { d \in Under(f, root) : f[d].kind = "dir" /\ Children(f, d) = {} }

RECURSIVE PathStr(_)
\* str(path): the names joined by '/'
PathStr(p) ==
  IF p = <<>> THEN <<>>
  ELSE IF Len(p) = 1 THEN p[1]
  ELSE p[1] \o <<47>> \o PathStr(Tail(p))

DryRunOps == {"delete_paths", "delete_by_name", "remove_empty_dirs"}

\* C1: a dry run of delete_paths, delete_by_name or remove_empty_dirs leaves
\* the tree exactly as it was before the call, whatever it counts.
C1_DryRunLeavesTree ==
  (last.op \in DryRunOps /\ last.dry_run) => fs = last.pre

C1_Witness ==
  /\ last.op = "delete_by_name"
  /\ last.dry_run
  /\ last.deleted >= 2
  /\ \E i \in DOMAIN last.log : is_dir(last.pre, last.log[i].path)

\* C2: after a live delete_by_name that returns 0 no entry below root matches
\* the pattern any more, and a matched entry that went away together with a
\* matched directory removed earlier in the batch is not counted as an error.
C2_DeleteByNameLeavesNoMatch ==
  (last.op = "delete_by_name" /\ ~last.dry_run) =>
    /\ last.code = 0 =>
         \A ord \in Orders :
           find_paths(fs, last.root, last.pattern, TRUE, ord) = <<>>
    /\ \A i, j \in DOMAIN last.log :
         ( /\ j < i
           /\ last.log[j].ok
           /\ IsPrefix(last.log[j].path, last.log[i].path) )
         => last.log[i].ok

C2_Witness ==
  /\ last.op = "delete_by_name"
  /\ ~last.dry_run
  /\ last.code = 0
  /\ \E i, j \in DOMAIN last.log :
       /\ j < i
       /\ IsPrefix(last.log[j].path, last.log[i].path)
       /\ is_dir(last.pre, last.log[j].path)
  /\ Matching(fs, last.root, last.pattern, TRUE) = {}
  /\ Entries(fs) # {}

\* C3: a live remove_empty_dirs without error removes exactly the directories
\* below root that have no file anywhere beneath them, nested ones included,
\* returns their number, and keeps every other entry.
C3_LivePruneRemovesHollow ==
  (last.op = "remove_empty_dirs" /\ ~last.dry_run /\ last.errors = 0) =>
    /\ fs = Remove(last.pre, Hollow(last.pre, last.root))
    /\ last.removed = Cardinality(Hollow(last.pre, last.root))

C3_Witness ==
  /\ last.op = "remove_empty_dirs"
  /\ ~last.dry_run
  /\ last.errors = 0
  /\ \E d, e \in DOMAIN last.pre \ DOMAIN fs : Parent(e) = d
  /\ Entries(fs) # {}

\* C4: find_paths returns exactly the entries below root whose bare name
\* matches the pattern (directories only when include_dirs), each one once.
C4_FindExactlyMatching ==
  last.op = "find_paths" =>
    /\ Range(last.matches)
         = Matching(last.pre, last.root, last.pattern, last.include_dirs)
    /\ Len(last.matches)
         = Cardinality(Matching(last.pre, last.root, last.pattern, last.include_dirs))

C4_Witness ==
  /\ last.op = "find_paths"
  /\ ~last.include_dirs
  /\ \E d \in Under(fs, last.root) :
       fs[d].kind = "dir" /\ fnmatch(BareName(d), last.pattern)
  /\ \E p \in Range(last.matches) : Len(p) >= 2
  /\ \E p \in Under(fs, last.root) : ~fnmatch(BareName(p), last.pattern)

\* C5: delete_paths attempts every path once, in the order given, whichever
\* of them fail, and deleted + errors is the length of the list.
C5_EveryPathCounted ==
  last.op = "delete_paths" =>
    /\ Len(last.log) = Len(last.paths)
    /\ \A i \in DOMAIN last.log : last.log[i].path = last.paths[i]
    /\ last.deleted = Cardinality({ i \in DOMAIN last.log : last.log[i].ok })
    /\ last.errors = Cardinality({ i \in DOMAIN last.log : ~last.log[i].ok })
    /\ last.deleted + last.errors = Len(last.paths)

C5_Witness ==
  /\ last.op = "delete_paths"
  /\ ~last.dry_run
  /\ Len(last.paths) = 2
  /\ ~last.log[1].ok
  /\ last.log[2].ok
  /\ last.paths[2] \notin DOMAIN fs

\* C6: remove_empty_dirs never removes the root it was given, in either mode.
C6_RootSurvives ==
  last.op = "remove_empty_dirs" => is_dir(fs, last.root)

C6_Witness ==
  /\ last.op = "remove_empty_dirs"
  /\ ~last.dry_run
  /\ last.root # <<>>
  /\ last.removed >= 1
  /\ Children(fs, last.root) = {}

\* C7: calculate_folder_size is the sum of the sizes of the files below root
\* whose metadata can be read, and one more readable file of size S anywhere
\* below root raises it by exactly S.
C7_SizeIsSumOfReadable ==
  last.op = "calculate_folder_size" =>
    /\ last.total
         = SumSizes(fs, { p \in Under(fs, last.root) :
                            fs[p].kind = "file" /\ fs[p].stat })
    /\ \A d \in Dirs(fs), n \in Names, s \in 1..MaxSize, ord \in Orders :
         (IsPrefix(last.root, d) /\ Append(d, n) \notin DOMAIN fs) =>
           calculate_folder_size((Append(d, n) :> NewFile(s)) @@ fs,
                                 last.root, ord) = last.total + s

C7_Witness ==
  /\ last.op = "calculate_folder_size"
  /\ last.total > 0
  /\ \E p \in Under(fs, last.root) : ~fs[p].stat
  /\ \E p \in Under(fs, last.root) : Len(p) >= 2 /\ fs[p].kind = "file" /\ fs[p].stat

\* C8: in a live delete_paths a path, plain file or directory tree, is
\* counted as an error only when a removal still fails after the write
\* permission was restored, that is when something at or below it is locked.
C8_RetryOnEveryPath ==
  (last.op = "delete_paths" /\ ~last.dry_run) =>
    \A i \in DOMAIN last.log :
      ~last.log[i].ok =>
        \E q \in DOMAIN last.pre :
          IsPrefix(last.log[i].path, q) /\ last.pre[q].mode = "locked"

\* C9 as stated: the matches are in ascending order of their full path strings.
C9_SortedByPathString ==
  last.op = "find_paths" =>
    \A i, j \in DOMAIN last.matches :
      i < j => StrLt(PathStr(last.matches[i]), PathStr(last.matches[j]))

\* C9: find_paths returns its matches in ascending order of their paths
\* compared name by name; a match inside directory a therefore comes before
\* the match a.t beside a, although its path string is the greater one.
C9_SortedByComponents ==
  last.op = "find_paths" =>
    \A i, j \in DOMAIN last.matches :
      i < j => PathLt(last.matches[i], last.matches[j])

C9_Witness ==
  /\ last.op = "find_paths"
  /\ \E i, j \in DOMAIN last.matches :
       /\ i < j
       /\ Len(last.matches[i]) = Len(last.matches[j]) + 1
       /\ Parent(last.matches[i]) # last.matches[j]
       /\ StrLt(PathStr(last.matches[j]), PathStr(last.matches[i]))

\* some directory below root is not empty and holds only empty directories
OnlyEmptyDirsInside(f, root) ==
  \E d \in Under(f, root) :
    /\ f[d].kind = "dir"
    /\ Children(f, d) # {}
    /\ Children(f, d) \subseteq EmptyDirs(f, root)

====
